---- MODULE Spec2Model ----
(***************************************************************************)
(* Model of jogramming/dca: the transcoding session (encodeSession, the    *)
(* encoder source with the ogg page reader) and the streaming delivery     *)
(* session (StreamingSession with NewStream / SetPaused).                  *)
(*                                                                         *)
(* Spec        the transcoding session with one ReadFrame consumer, Stop   *)
(*             callers and one Truncate caller.                            *)
(* FairSpec    Spec with the scheduler's weak fairness.                    *)
(* StreamSpec  the streaming session over an abstract OpusReader source    *)
(*             and an abstract sink (vc.OpusSend).                         *)
(* FairStreamSpec  StreamSpec with the scheduler's weak fairness.          *)
(* OptSpec     the transcoding session made with any options, valid or    *)
(*             not, with a ReadFrame consumer, the stderr reader and a     *)
(*             Stats caller.                                               *)
(* OwnedSpec   the streaming session that owns a raw-output transcoding    *)
(*             session (StreamFromEncodeSession / SetRunning).             *)
(* CtorSpec    EncodeMem / EncodeFile called with options or with nil,     *)
(*             and Options().                                              *)
(* ValidateSpec, DecodeSpec, MetadataSpec                                  *)
(*             the pure functions EncodeOptions.Validate, DecodeFrame      *)
(*             after writeOpusFrame, and Decoder.ReadMetadata, each        *)
(*             applied to inputs drawn from bounded sets.                  *)
(* ReassemblySpec  the segment reassembly of readStdout over every stream  *)
(*             of up to MaxPages pages.                                    *)
(* PipeRunSpec run() of the sessions that hand ffmpeg a stdin pipe          *)
(*             (src/encode.go, src/unnamed/part_004), with its lock steps. *)
(* AdaptorSpec OpusFrame() over the io.Reader of the session (Read and     *)
(*             e.buf), for queues of up to MaxFrames frames.               *)
(***************************************************************************)
EXTENDS Integers, Sequences, FiniteSets, TLC

VARIABLES
    \* ---- encodeSession fields
    options,        \* EncodeOptions: RawOutput, BufferedFrames, Volume,
                    \* FrameDuration, PacketLoss
    filePath,       \* TRUE: EncodeFile (pipeReader == nil), FALSE: EncodeMem
    mutex,          \* sync.Mutex of the session: "free" or the holder
    running,        \* e.running
    process,        \* e.process recorded (FALSE = nil)
    lastFrame,      \* e.lastFrame
    frameChannel,   \* buffered items of e.frameChannel
    closed,         \* e.frameChannel has been closed
    \* ---- the producer goroutine run()
    pc,             \* position of run()
    segIdx,         \* next entry of page.SegTbl to walk
    packetBuf,      \* packetBuf of readStdout
    pend,           \* the item of the channel send in progress
    \* ---- the ffmpeg subprocess and its stdout
    proc,           \* "none", "alive", "exited", "killed"
    src,            \* all pages the subprocess delivers on stdout (none if
                    \* it is never launched)
    out,            \* pages not yet decoded
    \* ---- callers
    received,       \* items returned by successful ReadFrame calls
    eofs,           \* ReadFrame calls that returned io.EOF
    stops,          \* Stop() calls made by the Stop caller
    lastStop,       \* last Stop(): "none", "NotRunning", "killed" (Kill sent)
    tpc,            \* position of the Truncate caller
    tMid,           \* Truncate was called mid-stream
    discarded,      \* frames thrown away by Truncate
    sentCount,      \* items the producer has put on the channel
    metaSent,       \* the metadata frame was put on the channel
    kills,          \* e.process.Kill() calls made
    probeFailed,    \* writeMetadataFrame returned early on a failure
    launched,       \* the options ffmpeg was started with, as a set:
                    \* empty before the launch
    lastStats,      \* e.lastStats: 0 is nil, n the n-th progress line
    statsOut,       \* what the last Stats() call returned, -1 before
    statLines,      \* stderr lines handed to handleStderrLine
    lastLine,       \* kind of the last of them
    closes,         \* close(e.frameChannel) calls made
    given,          \* the options pointer handed to the constructor, as a
                    \* set: empty for nil
    optionsOut,     \* what the last Options() call returned, as a set
    \* ---- arguments and results of the pure functions
    optsIn,         \* receiver of Validate()
    validateOut,    \* error Validate() returned, "none" before the call
    frameLen,       \* len(opusFrame) handed to writeOpusFrame
    avail,          \* bytes of the wire frame the reader of DecodeFrame holds
    decOut,         \* what DecodeFrame returned
    input,          \* bytes the reader of ReadMetadata holds
    chunk,          \* bytes the first Read call delivers
    rest,           \* what follows the fingerprint in the reader
    metaOut,        \* error ReadMetadata returned, "none" before the call
    \* ---- the io.Reader adaptor of the session under OpusFrame()
    queued,         \* payload lengths of the frames put on the channel
    taken,          \* frames ReadFrame has handed to Read, written to e.buf
    bufPos,         \* bytes read from e.buf so far
    opusOut,        \* what the OpusFrame() calls returned
    \* ---- StreamingSession fields
    sPaused, framesSent, sFinished, sRunning, sErr,
    \* ---- forwarding goroutines stream()
    pendingTasks,   \* goroutines spawned by go s.stream(), not yet scheduled
    spc,            \* position of the goroutine inside stream()
    panicked,       \* panic("Stream is already running!") was raised
    srcLen,         \* frames the source holds in all
    pulled,         \* frames OpusFrame() has returned
    srcEnd,         \* error the source returns when it has no frame
    sinkAccepts,    \* the sink takes hand-offs at all
    sunk,           \* frames the sink accepted
    cause,          \* err of stream(): the error readNext returned last
    firstCause,     \* the error with which the stream finished
    posAtPause,     \* framesSent when the stream was paused
    sentAtStart,    \* framesSent when the last forwarding goroutine started
    done,           \* s.done != nil: NewStream was given a done channel
    doneSent        \* errors handed to the goroutines that send on s.done

encVars == <<options, filePath, mutex, running, process, lastFrame,
             frameChannel, closed, pc, segIdx, packetBuf, pend, proc, src,
             out, received, eofs, stops, lastStop, tpc, tMid, discarded,
             sentCount, metaSent, kills, probeFailed, launched, lastStats,
             statsOut, statLines, lastLine, closes, given, optionsOut, optsIn,
             validateOut, frameLen, avail, decOut, input, chunk, rest,
             metaOut, queued, taken, bufPos, opusOut>>

streamVars == <<sPaused, framesSent, sFinished, sRunning, sErr, pendingTasks,
                spc, panicked, srcLen, pulled, srcEnd, sinkAccepts, sunk,
                cause, firstCause, posAtPause, sentAtStart, done, doneSent>>

vars == <<encVars, streamVars>>

----------------------------------------------------------------------------
\* Bounds of the model
MaxPages == 2
MaxBufferedFrames == 2
MaxEofs == 2
MaxStops == 1
MaxFrames == 3
MaxPending == 2
MaxStatLines == 1
MaxLen == 6

\* ogg lacing: a segment of 255 bytes continues the packet
MaxSegLen == 255

\* a page that ogg.Decoder rejects (or a page cut short by the kill)
BadPage == <<-1>>

\* subprocess outputs of the model, each a sequence of pages given by their
\* segment tables: no output; one packet; a packet of exactly 255 bytes (255
\* then 0) after a short one; a packet continued over a page boundary; a
\* trailing partial packet; a malformed page; an empty segment on an empty
\* buffer; and longer streams
Catalogue ==
    { <<>>,
      << <<7>> >>,
      << <<7, 255>>, <<0, 9>> >>,
      << <<255>>, <<8>> >>,
      << <<255>> >>,
      << <<7>>, BadPage >>,
      << <<0>>, <<7, 9>> >>,
      << <<7>>, <<255>>, <<255, 9>> >>,
      << <<7, 8>>, BadPage, <<9>> >> }

Outputs == {o \in Catalogue : Len(o) <= MaxPages}

\* segment tables of single pages: no segment, an empty segment, a short
\* one, a full one, and every pairing of them that ends or continues a
\* packet; and a page the decoder rejects
PageSet ==
    { <<>>, <<0>>, <<7>>, <<255>>, <<7, 9>>, <<7, 0>>, <<7, 255>>, <<0, 7>>,
      <<255, 0>>, <<255, 7>>, <<255, 255>>, BadPage }

\* every output of up to MaxPages such pages
PageStreams == UNION {[1..n -> PageSet] : n \in 0..MaxPages}

----------------------------------------------------------------------------
\* Pure functions of the producer

\* int16(len(opusFrame))
Int16(n) == ((n + 32768) % 65536) - 32768

RECURSIVE BufLen(_)
BufLen(buf) == IF buf = <<>> THEN 0 ELSE Head(buf)[3] + BufLen(Tail(buf))

\* packetBuf.Write(page.Packet[curPos : curPos+int(seg)]): the bytes of
\* segment i of page p, kept as one token <<p, i, length>>
WriteSeg(buf, p, i, n) == IF n = 0 THEN buf ELSE Append(buf, <<p, i, n>>)

\* the 2-byte length prefix followed by the payload
WireFrame(buf) == [size |-> Int16(BufLen(buf)), payload |-> buf]

MetaFrame == [size |-> 0, payload |-> <<"DCA1">>]

\* the loop over page.SegTbl from entry i on, up to the next writeOpusFrame
RECURSIVE WalkSegs(_, _, _, _)
WalkSegs(page, p, i, buf) ==
    IF i > Len(page) THEN [emit |-> FALSE, i |-> i, buf |-> buf]
    ELSE LET nb == WriteSeg(buf, p, i, page[i])
         IN  IF page[i] < MaxSegLen /\ BufLen(nb) > 0
             THEN [emit |-> TRUE, i |-> i + 1, buf |-> nb]
             ELSE WalkSegs(page, p, i + 1, nb)

\* all frames readStdout writes for the pages from (p, i) on
RECURSIVE AllFrames(_, _, _, _)
AllFrames(pages, p, i, buf) ==
    IF p > Len(pages) \/ (p <= Len(pages) /\ pages[p] = BadPage)
    THEN IF BufLen(buf) > 0 THEN <<WireFrame(buf)>> ELSE <<>>
    ELSE LET w == WalkSegs(pages[p], p, i, buf)
         IN  IF w.emit
             THEN <<WireFrame(w.buf)>> \o AllFrames(pages, p, w.i, <<>>)
             ELSE AllFrames(pages, p + 1, 1, w.buf)

\* the pages decoder.Decode() returns before its first error
RECURSIVE Delivered(_)
Delivered(pages) ==
    IF pages = <<>> \/ Head(pages) = BadPage THEN <<>>
    ELSE <<Head(pages)>> \o Delivered(Tail(pages))

\* the segments of the pages from page p on, in order, each as the token
\* <<p, i, length>> that WriteSeg puts in the buffer
RECURSIVE FlatSegs(_, _)
FlatSegs(pages, p) ==
    IF p > Len(pages) THEN <<>>
    ELSE [i \in 1..Len(pages[p]) |-> <<p, i, pages[p][i]>>]
            \o FlatSegs(pages, p + 1)

\* the packet boundary rule over one run of segments: append each segment to
\* the buffer, emit and reset on a segment below 255 with a buffer that is
\* not empty, and emit what is left at the end
RECURSIVE Packets(_, _)
Packets(segs, buf) ==
    IF segs = <<>>
    THEN IF BufLen(buf) > 0 THEN <<buf>> ELSE <<>>
    ELSE LET seg == Head(segs)
             nb == IF seg[3] > 0 THEN Append(buf, seg) ELSE buf
         IN  IF seg[3] < MaxSegLen /\ BufLen(nb) > 0
             THEN <<nb>> \o Packets(Tail(segs), <<>>)
             ELSE Packets(Tail(segs), nb)

\* the payloads of a sequence of frames, and their concatenation
Payloads(frames) == [i \in 1..Len(frames) |-> frames[i].payload]

RECURSIVE Concat(_)
Concat(bufs) == IF bufs = <<>> THEN <<>> ELSE Head(bufs) \o Concat(Tail(bufs))

HasData(seg) == seg[3] > 0

IsPrefix(s, t) == Len(s) <= Len(t) /\ s = SubSeq(t, 1, Len(s))

----------------------------------------------------------------------------
\* The transcoding session (encodeSession)

\* Validate with the volume range 0-256 and no test of PacketLoss
ValidateNarrow(opts) ==
    IF opts.Volume < 0 \/ opts.Volume > 256
    THEN "Out of bounds volume (0-512)"
    ELSE IF opts.FrameDuration # 20 /\ opts.FrameDuration # 40
            /\ opts.FrameDuration # 60
         THEN "Invalid FrameDuration"
         ELSE "nil"

\* EncodeOptions.Validate(): the error it returns, "nil" for none
Validate(opts) ==
    IF opts.Volume < 0 \/ opts.Volume > 512
    THEN "Out of bounds volume (0-512)"
    ELSE IF opts.FrameDuration # 20 /\ opts.FrameDuration # 40
            /\ opts.FrameDuration # 60
         THEN "Invalid FrameDuration"
         ELSE IF opts.PacketLoss < 0 \/ opts.PacketLoss > 100
              THEN "Invalid packet loss percentage"
              ELSE "nil"

\* options a caller may hand to EncodeMem / EncodeFile: any queue capacity,
\* and for each validated field a value inside and values outside its range
AnyOptions ==
    [RawOutput : BOOLEAN, BufferedFrames : 0..MaxBufferedFrames,
     Volume : {256, 513}, FrameDuration : {20, 30}, PacketLoss : {1, 101}]

\* StdEncodeOptions with any RawOutput and queue capacity
StdOptions == {o \in AnyOptions : /\ o.Volume = 256
                                  /\ o.FrameDuration = 20
                                  /\ o.PacketLoss = 1}

\* the fields of a session other than its options, right after construction
FreshFields ==
    /\ filePath \in BOOLEAN
    /\ mutex = "free"
    /\ running = FALSE
    /\ process = FALSE
    /\ lastFrame = 0
    /\ frameChannel = <<>>
    /\ closed = FALSE
    /\ segIdx = 1
    /\ packetBuf = <<>>
    /\ pend = MetaFrame
    /\ proc = "none"
    /\ out = src
    /\ received = <<>>
    /\ eofs = 0
    /\ stops = 0
    /\ lastStop = "none"
    /\ tpc = "idle"
    /\ tMid = FALSE
    /\ discarded = 0
    /\ sentCount = 0
    /\ metaSent = FALSE
    /\ kills = 0
    /\ probeFailed = FALSE
    /\ launched = {}
    /\ lastStats = 0
    /\ statsOut = -1
    /\ statLines = 0
    /\ lastLine = "none"
    /\ closes = 0
    /\ optionsOut = {}

\* EncodeFile / EncodeMem have returned: the session holds the options it
\* was given and go s.run() is spawned
NewSession ==
    /\ src \in Outputs
    /\ FreshFields
    /\ given = {options}
    /\ pc = "go"

\* the zero value of EncodeOptions
ZeroOptions ==
    [RawOutput |-> FALSE, BufferedFrames |-> 0, Volume |-> 0,
     FrameDuration |-> 0, PacketLoss |-> 0]

\* no call of Validate() is made
ValidateIdle ==
    /\ optsIn = ZeroOptions
    /\ validateOut = "none"

\* no call of DecodeFrame is made
DecodeIdle ==
    /\ frameLen = 0
    /\ avail = 0
    /\ decOut = [len |-> 0, err |-> "none", used |-> 0]

\* no call of ReadMetadata is made
MetadataIdle ==
    /\ input = <<>>
    /\ chunk = 0
    /\ rest = "none"
    /\ metaOut = "none"

\* no call of OpusFrame() is made
AdaptorIdle ==
    /\ queued = <<>>
    /\ taken = 0
    /\ bufPos = 0
    /\ opusOut = <<>>

PureIdle == ValidateIdle /\ DecodeIdle /\ MetadataIdle /\ AdaptorIdle

\* no session has been constructed
NoSession ==
    /\ options = ZeroOptions
    /\ src = <<>>
    /\ FreshFields
    /\ filePath = FALSE
    /\ given = {}
    /\ pc = "new"

\* a session made with valid options
EncInit ==
    /\ options \in StdOptions
    /\ NewSession
    /\ PureIdle

StreamIdle ==
    /\ sPaused = FALSE
    /\ framesSent = 0
    /\ sFinished = FALSE
    /\ sRunning = FALSE
    /\ sErr = "nil"
    /\ pendingTasks = 0
    /\ spc = "none"
    /\ panicked = FALSE
    /\ srcLen = 0
    /\ pulled = 0
    /\ srcEnd = "EOF"
    /\ sinkAccepts = TRUE
    /\ sunk = <<>>
    /\ cause = "none"
    /\ firstCause = "none"
    /\ posAtPause = 0
    /\ sentAtStart = 0
    /\ done = FALSE
    /\ doneSent = <<>>

Init == EncInit /\ StreamIdle

producerVars == <<pc, segIdx, packetBuf, pend>>
statsVars == <<lastStats, statsOut, statLines, lastLine>>
ctorVars == <<given, optionsOut>>
pureVars == <<optsIn, validateOut, frameLen, avail, decOut, input, chunk, rest,
              metaOut>>
adaptVars == <<queued, taken, bufPos, opusOut>>
otherVars == <<ctorVars, pureVars, adaptVars>>
auxVars == <<kills, probeFailed, launched, statsVars, closes, otherVars>>
callerVars == <<received, eofs, stops, lastStop, tpc, tMid, discarded>>

\* the page readStdout is walking
CurPageNo == Len(src) - Len(out)

\* where run() goes after the page walk w
AfterWalk(w) == IF w.emit THEN "send" ELSE "decode"

\* RunBegin without e.running = true
RunBeginLeavesFlag ==
    /\ pc = "go"
    /\ mutex = "free"
    /\ UNCHANGED running
    /\ \E pipes \in {"ok", "StdoutPipe Error", "StderrPipe Error"} :
         IF pipes = "ok"
         THEN /\ mutex' = "run"
              /\ pc' = IF options.RawOutput THEN "start"
                       ELSE IF filePath THEN "probe" ELSE "metasend"
              /\ UNCHANGED <<src, out>>
         ELSE /\ mutex' = "free"
              /\ pc' = "closefail"
              /\ src' = <<>>
              /\ out' = <<>>
    /\ UNCHANGED <<options, filePath, process, lastFrame, frameChannel, closed,
                   segIdx, packetBuf, pend, proc, callerVars, sentCount,
                   metaSent, auxVars, streamVars>>

\* run(): e.Lock(), e.running = true, StdoutPipe and StderrPipe
RunBegin ==
    /\ pc = "go"
    /\ mutex = "free"
    /\ running' = TRUE
    /\ \E pipes \in {"ok", "StdoutPipe Error", "StderrPipe Error"} :
         IF pipes = "ok"
         THEN /\ mutex' = "run"
              /\ pc' = IF options.RawOutput THEN "start"
                       ELSE IF filePath THEN "probe" ELSE "metasend"
              /\ UNCHANGED <<src, out>>
         ELSE /\ mutex' = "free"
              /\ pc' = "closefail"
              /\ src' = <<>>
              /\ out' = <<>>
    /\ UNCHANGED <<options, filePath, process, lastFrame, frameChannel, closed,
                   segIdx, packetBuf, pend, proc, callerVars, sentCount,
                   metaSent, auxVars, streamVars>>

\* writeMetadataFrame: ffprobe and the cover art command; every failure
\* returns without writing the frame
Probe ==
    /\ pc = "probe"
    /\ \E ok \in BOOLEAN : /\ pc' = IF ok THEN "metasend" ELSE "start"
                           /\ probeFailed' = ~ok
    /\ UNCHANGED <<options, filePath, mutex, running, process, lastFrame,
                   frameChannel, closed, segIdx, packetBuf, pend, proc, src,
                   out, callerVars, sentCount, metaSent, kills, launched,
                   statsVars, closes, otherVars, streamVars>>

\* ffmpeg.Start(), e.process = ffmpeg.Process, e.Unlock()
RunStart ==
    /\ pc = "start"
    /\ mutex' = "free"
    /\ \E ok \in BOOLEAN :
         IF ok
         THEN /\ proc' = "alive"
              /\ process' = TRUE
              /\ launched' = {options}
              /\ pc' = "decode"
              /\ UNCHANGED <<src, out>>
         ELSE /\ pc' = "closefail"
              /\ src' = <<>>
              /\ out' = <<>>
              /\ UNCHANGED <<proc, process, launched>>
    /\ UNCHANGED <<options, filePath, running, lastFrame, frameChannel, closed,
                   segIdx, packetBuf, pend, callerVars, sentCount, metaSent,
                   kills, probeFailed, statsVars, closes, otherVars,
                   streamVars>>

\* a failure path of run() that returns without close(e.frameChannel)
CloseFailLeavesOpen ==
    /\ pc = "closefail"
    /\ pc' = "defer"
    /\ UNCHANGED <<options, filePath, mutex, running, process, lastFrame,
                   frameChannel, closed, segIdx, packetBuf, pend, proc, src,
                   out, callerVars, sentCount, metaSent, kills, probeFailed,
                   launched, statsVars, closes, otherVars, streamVars>>

\* close(e.frameChannel) of the failure paths of run()
CloseFail ==
    /\ pc = "closefail"
    /\ closed' = TRUE
    /\ closes' = closes + 1
    /\ pc' = "defer"
    /\ UNCHANGED <<options, filePath, mutex, running, process, lastFrame,
                   frameChannel, segIdx, packetBuf, pend, proc, src, out,
                   callerVars, sentCount, metaSent, kills, probeFailed,
                   launched, statsVars, otherVars, streamVars>>

\* readStdout: decoder.Decode() and the walk of the segment table up to the
\* first completed packet; an error or EOF leaves the loop
Decode ==
    /\ pc = "decode"
    /\ IF out # <<>> /\ Head(out) # BadPage
       THEN LET w == WalkSegs(Head(out), CurPageNo + 1, 1, packetBuf)
            IN  /\ out' = Tail(out)
                /\ segIdx' = w.i
                /\ packetBuf' = w.buf
                /\ pend' = IF w.emit THEN WireFrame(w.buf) ELSE pend
                /\ pc' = AfterWalk(w)
       ELSE /\ out # <<>> \/ proc # "alive"
            /\ out' = <<>>
            /\ pend' = IF BufLen(packetBuf) > 0
                       THEN WireFrame(packetBuf) ELSE pend
            /\ pc' = IF BufLen(packetBuf) > 0 THEN "flushsend" ELSE "close"
            /\ UNCHANGED <<segIdx, packetBuf>>
    /\ UNCHANGED <<options, filePath, mutex, running, process, lastFrame,
                   frameChannel, closed, proc, src, callerVars, sentCount,
                   metaSent, auxVars, streamVars>>

SendPcs == {"metasend", "send", "flushsend"}

AfterSend(at) ==
    CASE at = "metasend" -> "start"
      [] at = "send" -> "count"
      [] at = "flushsend" -> "flushcount"

\* ChanSend putting the item in front of the buffered ones
ChanSendFront ==
    /\ pc \in SendPcs
    /\ ~closed
    /\ Len(frameChannel) < options.BufferedFrames
    /\ frameChannel' = <<pend>> \o frameChannel
    /\ pc' = AfterSend(pc)
    /\ sentCount' = sentCount + 1
    /\ metaSent' = (metaSent \/ pc = "metasend")
    /\ UNCHANGED <<options, filePath, mutex, running, process, lastFrame,
                   closed, segIdx, packetBuf, pend, proc, src, out, callerVars,
                   auxVars, streamVars>>

\* ChanSend on a channel without a capacity
ChanSendNoLimit ==
    /\ pc \in SendPcs
    /\ ~closed
    /\ frameChannel' = Append(frameChannel, pend)
    /\ pc' = AfterSend(pc)
    /\ sentCount' = sentCount + 1
    /\ metaSent' = (metaSent \/ pc = "metasend")
    /\ UNCHANGED <<options, filePath, mutex, running, process, lastFrame,
                   closed, segIdx, packetBuf, pend, proc, src, out, callerVars,
                   auxVars, streamVars>>

\* e.frameChannel <- item, with room in the buffer
ChanSend ==
    /\ pc \in SendPcs
    /\ ~closed
    /\ Len(frameChannel) < options.BufferedFrames
    /\ frameChannel' = Append(frameChannel, pend)
    /\ pc' = AfterSend(pc)
    /\ sentCount' = sentCount + 1
    /\ metaSent' = (metaSent \/ pc = "metasend")
    /\ UNCHANGED <<options, filePath, mutex, running, process, lastFrame,
                   closed, segIdx, packetBuf, pend, proc, src, out, callerVars,
                   auxVars, streamVars>>

\* Count without packetBuf.Reset()
CountKeepsBuffer ==
    /\ pc \in {"count", "flushcount"}
    /\ mutex = "free"
    /\ lastFrame' = lastFrame + 1
    /\ IF pc = "count"
       THEN LET w == WalkSegs(src[CurPageNo], CurPageNo, segIdx, packetBuf)
            IN  /\ segIdx' = w.i
                /\ packetBuf' = w.buf
                /\ pend' = IF w.emit THEN WireFrame(w.buf) ELSE pend
                /\ pc' = AfterWalk(w)
       ELSE /\ pc' = "close"
            /\ UNCHANGED <<segIdx, packetBuf, pend>>
    /\ UNCHANGED <<options, filePath, mutex, running, process, frameChannel,
                   closed, proc, src, out, callerVars, sentCount, metaSent,
                   auxVars, streamVars>>

\* writeOpusFrame after the send: e.lastFrame++ under the lock; then
\* packetBuf.Reset() and the rest of the segment table
Count ==
    /\ pc \in {"count", "flushcount"}
    /\ mutex = "free"
    /\ lastFrame' = lastFrame + 1
    /\ IF pc = "count"
       THEN LET w == WalkSegs(src[CurPageNo], CurPageNo, segIdx, <<>>)
            IN  /\ segIdx' = w.i
                /\ packetBuf' = w.buf
                /\ pend' = IF w.emit THEN WireFrame(w.buf) ELSE pend
                /\ pc' = AfterWalk(w)
       ELSE /\ pc' = "close"
            /\ UNCHANGED <<segIdx, packetBuf, pend>>
    /\ UNCHANGED <<options, filePath, mutex, running, process, frameChannel,
                   closed, proc, src, out, callerVars, sentCount, metaSent,
                   auxVars, streamVars>>

\* defer close(e.frameChannel) of readStdout
CloseChannel ==
    /\ pc = "close"
    /\ closed' = TRUE
    /\ closes' = closes + 1
    /\ pc' = "wait"
    /\ UNCHANGED <<options, filePath, mutex, running, process, lastFrame,
                   frameChannel, segIdx, packetBuf, pend, proc, src, out,
                   callerVars, sentCount, metaSent, kills, probeFailed,
                   launched, statsVars, otherVars, streamVars>>

\* ffmpeg.Wait() returns once the subprocess is gone
Wait ==
    /\ pc = "wait"
    /\ proc # "alive"
    /\ pc' = "defer"
    /\ UNCHANGED <<options, filePath, mutex, running, process, lastFrame,
                   frameChannel, closed, segIdx, packetBuf, pend, proc, src,
                   out, callerVars, sentCount, metaSent, auxVars, streamVars>>

\* RunDefer without the reset of e.running
RunDeferKeepsRunning ==
    /\ pc = "defer"
    /\ mutex = "free"
    /\ pc' = "done"
    /\ UNCHANGED <<options, filePath, mutex, running, process, lastFrame,
                   frameChannel, closed, segIdx, packetBuf, pend, proc, src,
                   out, callerVars, sentCount, metaSent, auxVars, streamVars>>

\* the deferred function of run(): e.running = false under the lock
RunDefer ==
    /\ pc = "defer"
    /\ mutex = "free"
    /\ running' = FALSE
    /\ pc' = "done"
    /\ UNCHANGED <<options, filePath, mutex, process, lastFrame, frameChannel,
                   closed, segIdx, packetBuf, pend, proc, src, out, callerVars,
                   sentCount, metaSent, auxVars, streamVars>>

\* the subprocess exits by itself; what it wrote stays readable in the pipe
ProcExit ==
    /\ proc = "alive"
    /\ proc' = "exited"
    /\ UNCHANGED <<options, filePath, mutex, running, process, lastFrame,
                   frameChannel, closed, producerVars, src, out, callerVars,
                   sentCount, metaSent, auxVars, streamVars>>

\* e.process.Kill(): a live subprocess dies; of what it had not yet written
\* nothing more arrives, and the page it was writing may arrive cut short
Kill ==
    IF proc = "alive"
    THEN /\ proc' = "killed"
         /\ \E k \in 0..Len(out) : \E cut \in BOOLEAN :
              /\ cut => k < Len(out)
              /\ out' = SubSeq(out, 1, k) \o (IF cut THEN <<BadPage>> ELSE <<>>)
              /\ src' = SubSeq(src, 1, CurPageNo) \o out'
    ELSE UNCHANGED <<proc, out, src>>

\* StopBody that looks at the process handle only
StopBodyHandleOnly ==
    /\ mutex = "free"
    /\ IF ~process
       THEN /\ lastStop' = "NotRunning"
            /\ UNCHANGED <<proc, out, src, kills>>
       ELSE /\ lastStop' = "killed"
            /\ kills' = kills + 1
            /\ Kill

\* Stop(): "Not running" unless running and a process handle is recorded
StopBody ==
    /\ mutex = "free"
    /\ IF ~running \/ ~process
       THEN /\ lastStop' = "NotRunning"
            /\ UNCHANGED <<proc, out, src, kills>>
       ELSE /\ lastStop' = "killed"
            /\ kills' = kills + 1
            /\ Kill

\* a caller of Stop()
Stop ==
    /\ stops < MaxStops
    /\ stops' = stops + 1
    /\ StopBody
    /\ UNCHANGED <<options, filePath, mutex, running, process, lastFrame,
                   frameChannel, closed, producerVars, received, eofs, tpc,
                   tMid, discarded, sentCount, metaSent, probeFailed,
                   launched, statsVars, closes, otherVars, streamVars>>

\* the subprocess is launched and readStdout is still producing frames
MidStream ==
    /\ process
    /\ proc = "alive"
    /\ pc \in {"decode", "send", "count"}
    /\ out # <<>>

\* a caller enters Truncate()
TruncateCall ==
    /\ tpc = "idle"
    /\ tpc' = "stop"
    /\ tMid' = MidStream
    /\ UNCHANGED <<options, filePath, mutex, running, process, lastFrame,
                   frameChannel, closed, producerVars, proc, src, out,
                   received, eofs, stops, lastStop, discarded, sentCount,
                   metaSent, auxVars, streamVars>>

\* Truncate(): e.Stop()
TruncateStop ==
    /\ tpc = "stop"
    /\ StopBody
    /\ tpc' = "drain"
    /\ UNCHANGED <<options, filePath, mutex, running, process, lastFrame,
                   frameChannel, closed, producerVars, received, eofs, stops,
                   tMid, discarded, sentCount, metaSent, probeFailed,
                   launched, statsVars, closes, otherVars, streamVars>>

\* ChanRecv that does not wait on an empty channel that is still open
ChanRecvNoWait(who) ==
    LET take(item) ==
          IF who = "read"
          THEN /\ received' = Append(received, item)
               /\ UNCHANGED <<eofs, tpc, discarded>>
          ELSE /\ discarded' = discarded + 1
               /\ UNCHANGED <<received, eofs, tpc>>
    IN
    \/ /\ frameChannel # <<>>
       /\ take(Head(frameChannel))
       /\ frameChannel' = Tail(frameChannel)
       /\ UNCHANGED <<pc, sentCount, metaSent>>
    \/ /\ frameChannel = <<>>
       /\ ~closed
       /\ options.BufferedFrames = 0
       /\ pc \in SendPcs
       /\ take(pend)
       /\ pc' = AfterSend(pc)
       /\ sentCount' = sentCount + 1
       /\ metaSent' = (metaSent \/ pc = "metasend")
       /\ UNCHANGED frameChannel
    \/ /\ frameChannel = <<>>
       /\ IF who = "read"
          THEN /\ eofs < MaxEofs
               /\ eofs' = eofs + 1
               /\ UNCHANGED <<received, tpc, discarded>>
          ELSE /\ tpc' = "returned"
               /\ UNCHANGED <<received, eofs, discarded>>
       /\ UNCHANGED <<frameChannel, pc, sentCount, metaSent>>

\* a receive from e.frameChannel by ReadFrame (who = "read") or by the range
\* loop of Truncate (who = "drain"): a buffered item, the item of a sender
\* blocked on an unbuffered channel, or the zero value of a closed channel
ChanRecv(who) ==
    LET take(item) ==
          IF who = "read"
          THEN /\ received' = Append(received, item)
               /\ UNCHANGED <<eofs, tpc, discarded>>
          ELSE /\ discarded' = discarded + 1
               /\ UNCHANGED <<received, eofs, tpc>>
    IN
    \/ /\ frameChannel # <<>>
       /\ take(Head(frameChannel))
       /\ frameChannel' = Tail(frameChannel)
       /\ UNCHANGED <<pc, sentCount, metaSent>>
    \/ /\ frameChannel = <<>>
       /\ ~closed
       /\ options.BufferedFrames = 0
       /\ pc \in SendPcs
       /\ take(pend)
       /\ pc' = AfterSend(pc)
       /\ sentCount' = sentCount + 1
       /\ metaSent' = (metaSent \/ pc = "metasend")
       /\ UNCHANGED frameChannel
    \/ /\ frameChannel = <<>>
       /\ closed
       /\ IF who = "read"
          THEN /\ eofs < MaxEofs
               /\ eofs' = eofs + 1
               /\ UNCHANGED <<received, tpc, discarded>>
          ELSE /\ tpc' = "returned"
               /\ UNCHANGED <<received, eofs, discarded>>
       /\ UNCHANGED <<frameChannel, pc, sentCount, metaSent>>

\* ReadFrame(): frame = <-e.frameChannel; nil means io.EOF
ReadFrame ==
    /\ ChanRecv("read")
    /\ UNCHANGED <<options, filePath, mutex, running, process, lastFrame,
                   closed, segIdx, packetBuf, pend, proc, src, out, stops,
                   lastStop, tMid, auxVars, streamVars>>

\* Truncate(): for _ = range e.frameChannel {}
TruncateDrain ==
    /\ tpc = "drain"
    /\ ChanRecv("drain")
    /\ UNCHANGED <<options, filePath, mutex, running, process, lastFrame,
                   closed, segIdx, packetBuf, pend, proc, src, out, stops,
                   lastStop, tMid, auxVars, streamVars>>

\* kinds of stderr line: one that does not begin with "size=", a progress
\* line that Sscanf parses in full, and one that begins with "size=" but on
\* which Sscanf returns an error
LineKinds == {"other", "progress", "malformed"}

\* readStderr / handleStderrLine: a line that does not begin with "size=" is
\* ignored; for any other line the Sscanf error is only logged, and the
\* values scanned from the line (lastStats = number of the line) replace the
\* snapshot under the lock
HandleStderrLine ==
    /\ launched # {}
    /\ statLines < MaxStatLines
    /\ statLines' = statLines + 1
    /\ \E line \in LineKinds :
         /\ lastLine' = line
         /\ IF line = "other"
            THEN UNCHANGED lastStats
            ELSE /\ mutex = "free"
                 /\ lastStats' = statLines'
    /\ UNCHANGED <<options, filePath, mutex, running, process, lastFrame,
                   frameChannel, closed, producerVars, proc, src, out,
                   callerVars, sentCount, metaSent, kills, probeFailed,
                   launched, statsOut, closes, otherVars, streamVars>>

\* Stats(): under the lock, a copy of the snapshot, or the zero value (0)
\* while there is none
Stats ==
    /\ mutex = "free"
    /\ statsOut' = lastStats
    /\ UNCHANGED <<options, filePath, mutex, running, process, lastFrame,
                   frameChannel, closed, producerVars, proc, src, out,
                   callerVars, sentCount, metaSent, kills, probeFailed,
                   launched, lastStats, statLines, lastLine, closes,
                   otherVars, streamVars>>

Producer ==
    \/ RunBegin
    \/ Probe
    \/ RunStart
    \/ CloseFail
    \/ Decode
    \/ ChanSend
    \/ Count
    \/ CloseChannel
    \/ Wait
    \/ RunDefer

Next ==
    \/ Producer
    \/ ProcExit
    \/ Stop
    \/ TruncateCall
    \/ TruncateStop
    \/ TruncateDrain
    \/ ReadFrame

Spec == Init /\ [][Next]_vars

\* every goroutine that can run is scheduled, the subprocess ends on its
\* own, the consumer keeps calling ReadFrame and a caller inside Truncate
\* goes on
FairSpec ==
    /\ Spec
    /\ WF_vars(Producer)
    /\ WF_vars(ProcExit)
    /\ WF_vars(ReadFrame)
    /\ WF_vars(TruncateStop)
    /\ WF_vars(TruncateDrain)

\* a session made with any options, with a ReadFrame consumer, the stderr
\* reader and a Stats caller
OptInit ==
    /\ options \in AnyOptions
    /\ NewSession
    /\ PureIdle
    /\ StreamIdle

\* StdEncodeOptions
StdEncodeOptions ==
    [RawOutput |-> FALSE, BufferedFrames |-> 100, Volume |-> 256,
     FrameDuration |-> 20, PacketLoss |-> 1]

\* a caller about to call EncodeMem / EncodeFile with an options pointer that
\* is nil or valid; no session exists yet
CtorInit ==
    /\ given \in {{}} \cup {{o} : o \in StdOptions}
    /\ options = ZeroOptions
    /\ pc = "new"
    /\ src \in Outputs
    /\ FreshFields
    /\ PureIdle
    /\ StreamIdle

\* EncodeMem / EncodeFile: the session is allocated with the options given
\* and a channel of capacity options.BufferedFrames, then go s.run(). With a
\* nil pointer the read of options.BufferedFrames panics, so the later test
\* e.options == nil of run() never sees nil
Construct ==
    /\ pc = "new"
    /\ IF given = {}
       THEN /\ pc' = "panic"
            /\ UNCHANGED options
       ELSE /\ options' = CHOOSE o \in given : TRUE
            /\ pc' = "go"
    /\ UNCHANGED <<filePath, mutex, running, process, lastFrame, frameChannel,
                   closed, segIdx, packetBuf, pend, proc, src, out, callerVars,
                   sentCount, metaSent, kills, probeFailed, launched,
                   statsVars, closes, given, optionsOut, pureVars, adaptVars,
                   streamVars>>

\* Options(): e.options
OptionsCall ==
    /\ pc \notin {"new", "panic"}
    /\ optionsOut' = {options}
    /\ UNCHANGED <<options, filePath, mutex, running, process, lastFrame,
                   frameChannel, closed, producerVars, proc, src, out,
                   callerVars, sentCount, metaSent, kills, probeFailed,
                   launched, statsVars, closes, given, pureVars, adaptVars,
                   streamVars>>

CtorNext ==
    \/ Construct
    \/ Producer
    \/ ProcExit
    \/ ReadFrame
    \/ OptionsCall

CtorSpec == CtorInit /\ [][CtorNext]_vars

OptNext ==
    \/ Producer
    \/ ProcExit
    \/ ReadFrame
    \/ HandleStderrLine
    \/ Stats

OptSpec == OptInit /\ [][OptNext]_vars

----------------------------------------------------------------------------
\* The pure functions, each applied once to an argument drawn from a set

\* values of the fields Validate() tests: inside, on the edges of and
\* outside their ranges
ValidateInputs ==
    [RawOutput : {FALSE}, BufferedFrames : {0},
     Volume : {-1, 0, 256, 512, 513},
     FrameDuration : {0, 20, 30, 40, 60, 80},
     PacketLoss : {-1, 0, 1, 100, 101}]

ValidateInit ==
    /\ NoSession
    /\ StreamIdle
    /\ DecodeIdle
    /\ MetadataIdle
    /\ AdaptorIdle
    /\ optsIn \in ValidateInputs
    /\ validateOut = "none"

\* a call of optsIn.Validate()
ValidateCall ==
    /\ validateOut = "none"
    /\ validateOut' = Validate(optsIn)
    /\ UNCHANGED <<options, filePath, mutex, running, process, lastFrame,
                   frameChannel, closed, producerVars, proc, src, out,
                   callerVars, sentCount, metaSent, kills, probeFailed,
                   launched, statsVars, closes, ctorVars, adaptVars, optsIn,
                   frameLen, avail, decOut, input, chunk, rest, metaOut,
                   streamVars>>

ValidateSpec == ValidateInit /\ [][ValidateCall]_vars

\* binary.Write(&dcaBuf, binary.LittleEndian, int16(len(opusFrame))): the two
\* bytes of the length prefix
LengthPrefix(n) ==
    LET u == Int16(n) % 65536
    IN  <<u % 256, u \div 256>>

\* payload lengths: the short ones, and those around one byte and around the
\* end of the int16 range
FrameLens == (0..MaxLen) \cup {255, 256, 32767, 32768, 65537}

\* how much of the wire frame (prefix, payload, and one byte of what
\* follows) the reader holds
AvailFor(n) == {a \in 0..(n + 3) : a <= MaxLen + 3 \/ a > n}

\* DecodeFrame reading the length as big-endian
DecodeFrameBigEndian(prefix, held) ==
    IF held = 0 THEN [len |-> 0, err |-> "EOF", used |-> 0]
    ELSE IF held = 1 THEN [len |-> 0, err |-> "ErrUnexpectedEOF", used |-> 1]
    ELSE LET size == Int16(prefix[2] + 256 * prefix[1])
         IN  IF size < 0 THEN [len |-> 0, err |-> "panic", used |-> 2]
             ELSE IF size = 0 THEN [len |-> 0, err |-> "nil", used |-> 2]
             ELSE IF held = 2
                  THEN [len |-> size, err |-> "EOF", used |-> 2]
             ELSE IF held - 2 < size
                  THEN [len |-> size, err |-> "ErrUnexpectedEOF",
                        used |-> held]
             ELSE [len |-> size, err |-> "nil", used |-> 2 + size]

\* DecodeFrame(r) on a reader that holds the first `held` bytes of a wire
\* frame with the given length prefix: binary.Read of the int16 (io.ReadFull:
\* io.EOF if no byte is left, io.ErrUnexpectedEOF if one is), make([]byte,
\* size) (a panic if size is negative), then binary.Read of size bytes (an
\* empty read succeeds; io.EOF if no byte is left, io.ErrUnexpectedEOF if
\* fewer than size are). len is the length of the slice returned, filled
\* from the reader only when err is "nil"; used is the bytes taken
DecodeFrame(prefix, held) ==
    IF held = 0 THEN [len |-> 0, err |-> "EOF", used |-> 0]
    ELSE IF held = 1 THEN [len |-> 0, err |-> "ErrUnexpectedEOF", used |-> 1]
    ELSE LET size == Int16(prefix[1] + 256 * prefix[2])
         IN  IF size < 0 THEN [len |-> 0, err |-> "panic", used |-> 2]
             ELSE IF size = 0 THEN [len |-> 0, err |-> "nil", used |-> 2]
             ELSE IF held = 2
                  THEN [len |-> size, err |-> "EOF", used |-> 2]
             ELSE IF held - 2 < size
                  THEN [len |-> size, err |-> "ErrUnexpectedEOF",
                        used |-> held]
             ELSE [len |-> size, err |-> "nil", used |-> 2 + size]

DecodeInit ==
    /\ NoSession
    /\ StreamIdle
    /\ ValidateIdle
    /\ MetadataIdle
    /\ AdaptorIdle
    /\ frameLen \in FrameLens
    /\ avail \in AvailFor(frameLen)
    /\ decOut = [len |-> 0, err |-> "none", used |-> 0]

\* a payload of frameLen bytes is written as writeOpusFrame writes it, and
\* DecodeFrame is called on a reader holding the first avail bytes of it
DecodeFrameCall ==
    /\ decOut.err = "none"
    /\ decOut' = DecodeFrame(LengthPrefix(frameLen), avail)
    /\ UNCHANGED <<options, filePath, mutex, running, process, lastFrame,
                   frameChannel, closed, producerVars, proc, src, out,
                   callerVars, sentCount, metaSent, kills, probeFailed,
                   launched, statsVars, closes, ctorVars, adaptVars, optsIn,
                   validateOut, frameLen, avail, input, chunk, rest, metaOut,
                   streamVars>>

DecodeSpec == DecodeInit /\ [][DecodeFrameCall]_vars

\* bytes of the inputs of ReadMetadata: the letters of the magic, a digit
\* and another byte; NUL is the zero byte of the fresh fingerprint buffer
Bytes == {"D", "C", "A", "1", "x"}
Digits == {"1"}
NUL == "NUL"
Magic == <<"D", "C", "A">>

\* the inputs of up to four bytes
Inputs == UNION {[1..n -> Bytes] : n \in 0..4}

\* what follows the fingerprint: the end of the input, a length with too
\* few bytes after it, bytes that are not JSON, or the metadata
Rests == {"end", "short", "badjson", "json"}

\* fingerprint := make([]byte, 4) after d.r.Read(fingerprint) delivered k
\* bytes of the input in
Fingerprint(in, k) == [i \in 1..4 |-> IF i <= k THEN in[i] ELSE NUL]

\* ReadMetadata(): the error it returns ("nil" for none) when the first Read
\* delivers k bytes of the input in (a Read at the end of the input delivers
\* none and returns io.EOF) and what follows the fingerprint is r
ReadMetadata(in, k, r) ==
    IF k = 0 THEN "EOF"
    ELSE LET fingerprint == Fingerprint(in, k)
         IN  IF SubSeq(fingerprint, 1, 3) # Magic THEN "ErrNotDCA"
             ELSE IF fingerprint[4] \notin Digits THEN "NumError"
             ELSE CASE r = "end" -> "EOF"
                    [] r = "short" -> "ErrUnexpectedEOF"
                    [] r = "badjson" -> "SyntaxError"
                    [] r = "json" -> "nil"

\* one call of Read delivers at least one byte of a non-empty input and at
\* most len(fingerprint) bytes
MetadataInit ==
    /\ NoSession
    /\ StreamIdle
    /\ ValidateIdle
    /\ DecodeIdle
    /\ AdaptorIdle
    /\ input \in Inputs
    /\ chunk \in IF input = <<>> THEN {0} ELSE 1..Len(input)
    /\ rest \in IF chunk = 4 /\ SubSeq(input, 1, 3) = Magic
                    /\ input[4] \in Digits
                 THEN Rests ELSE {"end"}
    /\ metaOut = "none"

\* a call of d.ReadMetadata()
ReadMetadataCall ==
    /\ metaOut = "none"
    /\ metaOut' = ReadMetadata(input, chunk, rest)
    /\ UNCHANGED <<options, filePath, mutex, running, process, lastFrame,
                   frameChannel, closed, producerVars, proc, src, out,
                   callerVars, sentCount, metaSent, kills, probeFailed,
                   launched, statsVars, closes, ctorVars, adaptVars, optsIn,
                   validateOut, frameLen, avail, decOut, input, chunk, rest,
                   streamVars>>

MetadataSpec == MetadataInit /\ [][ReadMetadataCall]_vars

----------------------------------------------------------------------------
TypeOK ==
    /\ mutex \in {"free", "run"}
    /\ Len(frameChannel) <= options.BufferedFrames
    /\ proc \in {"none", "alive", "exited", "killed"}

----------------------------------------------------------------------------
\* Properties of the transcoding session

\* the items the subprocess output src puts on the channel, in order
Expected ==
    (IF metaSent THEN <<MetaFrame>> ELSE <<>>) \o AllFrames(src, 1, 1, <<>>)

\* the single ReadFrame consumer is the only receiver
SoleConsumer == tpc = "idle"

C1Exhausted ==
    (SoleConsumer /\ eofs >= 1) =>
        /\ closed
        /\ frameChannel = <<>>
        /\ pc \notin SendPcs
        /\ Len(received) = sentCount

\* C1: with a producer that enqueues N items and a single ReadFrame consumer,
\* ReadFrame succeeds exactly N times, then returns io.EOF, and returns
\* io.EOF on every later call; the drain reaches io.EOF.
C1_ReadFrameDrain ==
    /\ []C1Exhausted
    /\ [][(SoleConsumer /\ eofs >= 1) => received' = received]_vars
    /\ <>(~SoleConsumer \/ eofs >= 1)

C1_Witness ==
    /\ SoleConsumer
    /\ eofs >= 2
    /\ Len(received) >= 3
    /\ Len(received) = sentCount

\* C2: the frames ReadFrame returns to a single consumer are the frames of
\* the subprocess output in production order, whatever the interleaving and
\* the queue capacity; after io.EOF they are all of them.
C2_ProductionOrder ==
    SoleConsumer =>
        /\ IsPrefix(received \o frameChannel, Expected)
        /\ eofs >= 1 => received = Expected

C2_Witness ==
    /\ SoleConsumer
    /\ eofs >= 1
    /\ Len(received) >= 3
    /\ options.BufferedFrames >= 2

\* C3: when a Truncate() called mid-stream has returned, the subprocess is
\* not running and Running() reports false.
C3_TruncateStopsSession ==
    (tpc = "returned" /\ tMid) => (proc # "alive" /\ ~running)

\* C4: when Truncate() has returned the queue is closed and empty, the
\* producer is not in a queue send, and every later ReadFrame returns io.EOF.
C4_TruncateDrains ==
    /\ [](tpc = "returned" =>
            closed /\ frameChannel = <<>> /\ pc \notin SendPcs)
    /\ [][(tpc = "returned" /\ <<received, eofs>>' # <<received, eofs>>)
            => (received' = received /\ eofs' = eofs + 1)]_vars

\* the part of C3 about the subprocess alone
C3_ProcessGone == (tpc = "returned" /\ tMid) => proc # "alive"

C4_Witness ==
    /\ tpc = "returned"
    /\ discarded >= 1
    /\ eofs >= 1
    /\ lastStop = "killed"

\* C5: after a Stop() that killed the subprocess, with the queue being
\* consumed, the producer closes the queue and Running() becomes false; the
\* kill itself touches neither the queue nor the producer's send.
C5_StopEndsSession ==
    /\ (lastStop = "killed") ~> (closed /\ ~running /\ pc = "done")
    /\ [][(proc = "alive" /\ proc' = "killed")
            => UNCHANGED <<frameChannel, closed, pc, pend, sentCount>>]_vars

C5_Witness ==
    /\ lastStop = "killed"
    /\ proc = "killed"
    /\ closed
    /\ ~running
    /\ sentCount >= 1

\* positions of run() inside an operation that can block: the prober, the
\* launch, a channel send, reading the subprocess output, ffmpeg.Wait()
BlockingPcs == {"probe", "start", "decode", "wait"} \cup SendPcs

\* C12: run() never holds the session mutex while it runs the prober,
\* launches the subprocess, sends on the channel or reads the output.
C12_NoLockWhileBlocking == pc \in BlockingPcs => mutex = "free"

\* C13: Stats() can return in every reachable state, whatever the producer
\* and the consumer do.
C13_StatsNeverBlocks == ENABLED Stats

\* C13, the part that holds: what Stats() returns is the latest snapshot,
\* the zero value before the first progress line.
C13_StatsLatest == [][statsOut' # statsOut => statsOut' = lastStats]_vars

\* C14: the channel never buffers more than BufferedFrames items; run()
\* cannot send while the buffer is full; ReadFrame waits only on an empty
\* channel that is not closed (MaxEofs bounds the calls made after the end).
C14_QueueBound ==
    /\ Len(frameChannel) <= options.BufferedFrames
    /\ Len(frameChannel) = options.BufferedFrames => ~ENABLED ChanSend
    /\ ~ENABLED ReadFrame
           => frameChannel = <<>> /\ (~closed \/ eofs = MaxEofs)

\* run() is blocked on a send with the buffer of two frames full
C14_Witness ==
    /\ options.BufferedFrames >= 2
    /\ Len(frameChannel) = options.BufferedFrames
    /\ pc \in SendPcs
    /\ ~ENABLED ChanSend

\* a call of Stop() returns, from the Stop caller or inside Truncate
StopReturns == stops' # stops \/ (tpc = "stop" /\ tpc' = "drain")

\* C15: Stop() returns "Not running", and sends no kill, exactly when
\* e.running is false or no process handle is recorded; otherwise it sends
\* the kill; after run() has finished it always returns "Not running".
C15_StopNotRunning ==
    [][StopReturns =>
         /\ lastStop' = "NotRunning" <=> (~running \/ ~process)
         /\ lastStop' = "NotRunning" => (kills' = kills /\ proc' = proc)
         /\ lastStop' # "NotRunning" => kills' = kills + 1
         /\ pc = "done" => lastStop' = "NotRunning"]_vars

\* Stop() was called after the subprocess had exited by itself and run() had
\* finished: "Not running", no kill sent
C15_Witness ==
    /\ stops = 1
    /\ tpc = "idle"
    /\ lastStop = "NotRunning"
    /\ pc = "done"
    /\ process
    /\ proc = "exited"
    /\ kills = 0

\* C16: over all the Stop() and Truncate() calls of a session the
\* subprocess is sent a kill at most once.
C16_KillOnce == kills <= 1

\* C17: Running() is true exactly from the launch of the subprocess until
\* the channel is closed.
C17_RunningExact == running <=> (proc # "none" /\ ~closed)

\* C18: in a session that is not raw-output the metadata frame is on the
\* channel before the subprocess is started, and it is the first item
\* ReadFrame returns.
C18_PrologueFirst ==
    ~options.RawOutput
        => /\ proc # "none" => metaSent
           /\ received # <<>> => received[1] = MetaFrame

\* C18, the part that holds: a metadata frame that is sent is sent before
\* the launch and is the first item on the channel.
C18_PrologueBeforeLaunch ==
    [][metaSent' /\ ~metaSent => proc = "none" /\ sentCount = 0]_vars

\* C19: after a failed probe the subprocess is never launched and no frame
\* is put on the channel.
C19_ProbeFailureEnds == probeFailed => (proc = "none" /\ sentCount = 0)

\* C20: the options the subprocess is started with pass Validate().
C20_ValidatedLaunch == \A o \in launched : Validate(o) = "nil"

\* C21: a session constructed with nil options is constructed, runs with
\* StdEncodeOptions, and Options() returns them; Options() of any other
\* session returns the options it was given.
C21_DefaultOptions ==
    /\ (pc # "new" /\ given = {})
           => /\ pc # "panic"
              /\ options = StdEncodeOptions
              /\ optionsOut \subseteq {StdEncodeOptions}
    /\ (given # {} /\ optionsOut # {}) => optionsOut = given

\* C21, the part that holds: Options() returns the options the session was
\* given.
C21_OptionsGiven == optionsOut # {} => optionsOut = given

VolumeOK == 0 <= optsIn.Volume /\ optsIn.Volume <= 512
DurationOK == optsIn.FrameDuration \in {20, 40, 60}
LossOK == 0 <= optsIn.PacketLoss /\ optsIn.PacketLoss <= 100

\* C22: Validate() returns no error exactly when Volume is in 0..512,
\* FrameDuration is 20, 40 or 60 and PacketLoss is in 0..100; when exactly
\* one field is out of range the error is the one of that field.
C22_Validate ==
    validateOut # "none"
        => /\ validateOut = "nil" <=> (VolumeOK /\ DurationOK /\ LossOK)
           /\ (~VolumeOK /\ DurationOK /\ LossOK)
                  => validateOut = "Out of bounds volume (0-512)"
           /\ (VolumeOK /\ ~DurationOK /\ LossOK)
                  => validateOut = "Invalid FrameDuration"
           /\ (VolumeOK /\ DurationOK /\ ~LossOK)
                  => validateOut = "Invalid packet loss percentage"

\* Validate() rejected options whose only fault is a packet loss above 100
C22_Witness ==
    /\ validateOut = "Invalid packet loss percentage"
    /\ optsIn.Volume = 512
    /\ optsIn.FrameDuration = 60
    /\ optsIn.PacketLoss = 101

\* C23: a payload of 0..32767 bytes written by writeOpusFrame and read back
\* by DecodeFrame from a reader that holds the whole frame comes back with
\* its length and bytes, without error, and exactly 2 + L bytes are taken.
C23_RoundTrip ==
    (decOut.err # "none" /\ frameLen <= 32767 /\ avail >= 2 + frameLen)
        => decOut = [len |-> frameLen, err |-> "nil", used |-> 2 + frameLen]

\* a frame of 256 bytes, followed by more bytes, was read back
C23_Witness ==
    /\ frameLen = 256
    /\ avail > 2 + frameLen
    /\ decOut = [len |-> 256, err |-> "nil", used |-> 258]

\* C24: DecodeFrame on a reader that ends inside the payload (0 to L-1 of
\* the L > 0 payload bytes are there) returns io.ErrUnexpectedEOF, not
\* io.EOF and not a frame.
C24_ShortRead ==
    (decOut.err # "none" /\ 0 < frameLen /\ frameLen <= 32767
       /\ 2 <= avail /\ avail < 2 + frameLen)
        => decOut.err = "ErrUnexpectedEOF"

\* C24, the part that holds: no frame is returned without an error, and the
\* error is io.ErrUnexpectedEOF once one payload byte is there.
C24_NoSilentFrame ==
    (decOut.err # "none" /\ 0 < frameLen /\ frameLen <= 32767
       /\ 2 <= avail /\ avail < 2 + frameLen)
        => /\ decOut.err # "nil"
           /\ avail > 2 => decOut.err = "ErrUnexpectedEOF"

\* C25: ReadMetadata on an input whose first three bytes are not "DCA"
\* returns ErrNotDCA whatever follows; on an input that begins with "DCA"
\* followed by a byte that is not a digit it returns the parse error of
\* strconv.ParseInt.
C25_Header ==
    metaOut # "none"
        => /\ (Len(input) >= 3 /\ SubSeq(input, 1, 3) # Magic)
                  => metaOut = "ErrNotDCA"
           /\ (Len(input) = 4 /\ SubSeq(input, 1, 3) = Magic
                 /\ input[4] \notin Digits)
                  => metaOut = "NumError"

\* C25, the part that holds: ErrNotDCA for every input that does not begin
\* with "DCA", and the parse error when the first Read delivers the whole
\* fingerprint.
C25_HeaderFullRead ==
    metaOut # "none"
        => /\ (Len(input) >= 3 /\ SubSeq(input, 1, 3) # Magic)
                  => metaOut = "ErrNotDCA"
           /\ (Len(input) = 4 /\ SubSeq(input, 1, 3) = Magic
                 /\ input[4] \notin Digits /\ chunk >= 3)
                  => metaOut = "NumError"

\* C26: a stderr line that begins with "size=" but does not parse in full
\* leaves the stats snapshot as it was and does not end the session.
C26_MalformedSkipped ==
    [][(statLines' # statLines /\ lastLine' = "malformed")
          => (lastStats' = lastStats /\ pc' = pc /\ closed' = closed)]_vars

\* C26, the part that holds: no stderr line ends the session, and a line
\* that does not begin with "size=" leaves the snapshot as it was.
C26_NeverFatal ==
    [][statLines' # statLines
          => /\ pc' = pc /\ closed' = closed /\ proc' = proc
             /\ lastLine' = "other" => lastStats' = lastStats]_vars

----------------------------------------------------------------------------
\* The streaming session (StreamingSession)

\* a session no caller uses, for the specification of the streaming session
EncIdle ==
    /\ EncInit
    /\ options.RawOutput
    /\ options.BufferedFrames = 0
    /\ filePath = FALSE
    /\ src = <<>>

\* NewStream: the zero-valued session and go session.stream()
StreamInit ==
    /\ EncIdle
    /\ sPaused = FALSE
    /\ framesSent = 0
    /\ sFinished = FALSE
    /\ sRunning = FALSE
    /\ sErr = "nil"
    /\ pendingTasks = 1
    /\ spc = "none"
    /\ panicked = FALSE
    /\ srcLen \in 0..MaxFrames
    /\ pulled = 0
    /\ srcEnd \in {"EOF", "ErrUnexpectedEOF"}
    /\ sinkAccepts \in BOOLEAN
    /\ sunk = <<>>
    /\ cause = "none"
    /\ firstCause = "none"
    /\ posAtPause = 0
    /\ sentAtStart = 0
    /\ done \in BOOLEAN
    /\ doneSent = <<>>

sessionVars == <<sPaused, framesSent, sFinished, sRunning, sErr>>
sourceVars == <<srcLen, pulled, srcEnd, sinkAccepts>>

\* StreamStart with a counter that starts over
StreamStartResets ==
    /\ ~panicked
    /\ pendingTasks > 0
    /\ pendingTasks' = pendingTasks - 1
    /\ IF sRunning
       THEN /\ panicked' = TRUE
            /\ UNCHANGED <<sRunning, spc, sentAtStart>>
       ELSE /\ sRunning' = TRUE
            /\ spc' = "check"
            /\ sentAtStart' = framesSent
            /\ UNCHANGED panicked
    /\ framesSent' = 0
    /\ UNCHANGED <<sPaused, sFinished, sErr, sourceVars, sunk,
                   cause, posAtPause, firstCause, done, doneSent, encVars>>

\* stream(): a spawned goroutine is scheduled; it panics if a forwarding
\* goroutine is already running, else it sets running
StreamStart ==
    /\ ~panicked
    /\ pendingTasks > 0
    /\ pendingTasks' = pendingTasks - 1
    /\ IF sRunning
       THEN /\ panicked' = TRUE
            /\ UNCHANGED <<sRunning, spc, sentAtStart>>
       ELSE /\ sRunning' = TRUE
            /\ spc' = "check"
            /\ sentAtStart' = framesSent
            /\ UNCHANGED panicked
    /\ UNCHANGED <<sPaused, framesSent, sFinished, sErr, sourceVars, sunk,
                   cause, posAtPause, firstCause, done, doneSent, encVars>>

\* StreamCheck without the test of s.paused
StreamCheckIgnoresPause ==
    /\ ~panicked
    /\ spc = "check"
    /\ spc' = "pull"
    /\ UNCHANGED <<sessionVars, pendingTasks, panicked, sourceVars, sunk,
                   cause, posAtPause, sentAtStart, firstCause, done, doneSent,
                   encVars>>

\* stream(): the head of the loop; a paused stream returns
StreamCheck ==
    /\ ~panicked
    /\ spc = "check"
    /\ spc' = IF sPaused THEN "exit" ELSE "pull"
    /\ UNCHANGED <<sessionVars, pendingTasks, panicked, sourceVars, sunk,
                   cause, posAtPause, sentAtStart, firstCause, done, doneSent,
                   encVars>>

\* readNext(): s.source.OpusFrame()
StreamPull ==
    /\ ~panicked
    /\ spc = "pull"
    /\ IF pulled < srcLen
       THEN /\ pulled' = pulled + 1
            /\ spc' = "select"
            /\ UNCHANGED cause
       ELSE /\ cause' = srcEnd
            /\ spc' = "fin"
            /\ UNCHANGED pulled
    /\ UNCHANGED <<sessionVars, pendingTasks, panicked, srcLen, srcEnd,
                   sinkAccepts, sunk, posAtPause, sentAtStart, firstCause,
                   done, doneSent, encVars>>

\* readNext(): case s.vc.OpusSend <- opus
StreamSend ==
    /\ ~panicked
    /\ spc = "select"
    /\ sinkAccepts
    /\ sunk' = Append(sunk, pulled)
    /\ spc' = "inc"
    /\ UNCHANGED <<sessionVars, pendingTasks, panicked, sourceVars, cause,
                   posAtPause, sentAtStart, firstCause, done, doneSent,
                   encVars>>

\* readNext(): case <-timeOut
StreamTimeout ==
    /\ ~panicked
    /\ spc = "select"
    /\ cause' = "ErrVoiceConnClosed"
    /\ spc' = "fin"
    /\ UNCHANGED <<sessionVars, pendingTasks, panicked, sourceVars, sunk,
                   posAtPause, sentAtStart, firstCause, done, doneSent,
                   encVars>>

\* readNext(): s.framesSent++ under the lock
StreamInc ==
    /\ ~panicked
    /\ spc = "inc"
    /\ framesSent' = framesSent + 1
    /\ spc' = "check"
    /\ UNCHANGED <<sPaused, sFinished, sRunning, sErr, pendingTasks, panicked,
                   sourceVars, sunk, cause, posAtPause, sentAtStart,
                   firstCause, done, doneSent, encVars>>

\* stream(): readNext returned an error; if a done channel was given, a
\* goroutine is spawned that sends err on it
StreamFinish ==
    /\ ~panicked
    /\ spc = "fin"
    /\ sFinished' = TRUE
    /\ sErr' = IF cause # "EOF" THEN cause ELSE sErr
    /\ firstCause' = IF sFinished THEN firstCause ELSE cause
    /\ doneSent' = IF done THEN Append(doneSent, cause) ELSE doneSent
    /\ spc' = "exit"
    /\ UNCHANGED <<sPaused, framesSent, sRunning, pendingTasks, panicked,
                   sourceVars, sunk, cause, posAtPause, sentAtStart, done,
                   encVars>>

\* stream(): the deferred function, s.running = false
StreamExit ==
    /\ ~panicked
    /\ spc = "exit"
    /\ sRunning' = FALSE
    /\ spc' = "none"
    /\ UNCHANGED <<sPaused, framesSent, sFinished, sErr, pendingTasks,
                   panicked, sourceVars, sunk, cause, posAtPause, sentAtStart,
                   firstCause, done, doneSent, encVars>>

\* SetPaused without the test of s.finished
SetPausedIgnoresFinished(paused) ==
    /\ ~panicked
    /\ IF ~paused /\ sRunning
       THEN /\ sPaused' = FALSE
            /\ UNCHANGED pendingTasks
       ELSE IF paused /\ ~sRunning
       THEN /\ sPaused' = TRUE
            /\ UNCHANGED pendingTasks
       ELSE /\ IF ~sRunning /\ sPaused /\ ~paused
               THEN /\ pendingTasks < MaxPending
                    /\ pendingTasks' = pendingTasks + 1
               ELSE UNCHANGED pendingTasks
            /\ sPaused' = paused
    /\ posAtPause' = IF sPaused' /\ ~sPaused THEN framesSent ELSE posAtPause
    /\ UNCHANGED <<framesSent, sFinished, sRunning, sErr, spc, panicked,
                   sourceVars, sunk, cause, sentAtStart, firstCause, done,
                   doneSent, encVars>>

\* SetPaused that spawns a forwarding goroutine whenever none is running
SetPausedAlwaysSpawns(paused) ==
    /\ ~panicked
    /\ IF sFinished
       THEN UNCHANGED <<sPaused, pendingTasks>>
       ELSE IF ~paused /\ sRunning
       THEN /\ sPaused' = FALSE
            /\ UNCHANGED pendingTasks
       ELSE IF paused /\ ~sRunning
       THEN /\ sPaused' = TRUE
            /\ UNCHANGED pendingTasks
       ELSE /\ IF ~sRunning /\ ~paused
               THEN /\ pendingTasks < MaxPending
                    /\ pendingTasks' = pendingTasks + 1
               ELSE UNCHANGED pendingTasks
            /\ sPaused' = paused
    /\ posAtPause' = IF sPaused' /\ ~sPaused THEN framesSent ELSE posAtPause
    /\ UNCHANGED <<framesSent, sFinished, sRunning, sErr, spc, panicked,
                   sourceVars, sunk, cause, sentAtStart, firstCause, done,
                   doneSent, encVars>>

\* SetPaused(paused)
SetPaused(paused) ==
    /\ ~panicked
    /\ IF sFinished
       THEN UNCHANGED <<sPaused, pendingTasks>>
       ELSE IF ~paused /\ sRunning
       THEN /\ sPaused' = FALSE
            /\ UNCHANGED pendingTasks
       ELSE IF paused /\ ~sRunning
       THEN /\ sPaused' = TRUE
            /\ UNCHANGED pendingTasks
       ELSE /\ IF ~sRunning /\ sPaused /\ ~paused
               THEN /\ pendingTasks < MaxPending
                    /\ pendingTasks' = pendingTasks + 1
               ELSE UNCHANGED pendingTasks
            /\ sPaused' = paused
    /\ posAtPause' = IF sPaused' /\ ~sPaused THEN framesSent ELSE posAtPause
    /\ UNCHANGED <<framesSent, sFinished, sRunning, sErr, spc, panicked,
                   sourceVars, sunk, cause, sentAtStart, firstCause, done,
                   doneSent, encVars>>

StreamTask ==
    \/ StreamStart
    \/ StreamCheck
    \/ StreamPull
    \/ StreamSend
    \/ StreamTimeout
    \/ StreamInc
    \/ StreamFinish
    \/ StreamExit

StreamNext ==
    \/ StreamTask
    \/ \E paused \in BOOLEAN : SetPaused(paused)

StreamSpec == StreamInit /\ [][StreamNext]_vars

\* every forwarding goroutine that can run is scheduled
FairStreamSpec == StreamSpec /\ WF_vars(StreamTask)

\* forwarding goroutines that exist: spawned or inside stream()
Tasks == pendingTasks + (IF spc # "none" THEN 1 ELSE 0)

\* Finished()
Finished == <<sFinished, sErr>>

\* C6: stream() is never started while another forwarding goroutine runs
\* or is pending: the panic is unreachable and at most one exists.
C6_SingleTask == ~panicked /\ Tasks <= 1

\* C7: with a sink that never accepts, once the forwarding goroutine has
\* pulled a frame, Finished() becomes (true, ErrVoiceConnClosed).
C7_SinkTimeout ==
    (spc = "select" /\ ~sinkAccepts)
        ~> (Finished = <<TRUE, "ErrVoiceConnClosed">>)

\* C8 as claimed: while paused, the frames-sent counter stays where it was
\* when SetPaused(true) returned.
C8_PausedNoAdvance == sPaused => framesSent = posAtPause

\* C8: while paused, the frames-sent counter advances by at most the one
\* frame that was in flight when SetPaused(true) returned.
C8_PausedAtMostOne == sPaused => framesSent <= posAtPause + 1

C8_Witness ==
    /\ sPaused
    /\ framesSent = posAtPause + 1
    /\ posAtPause >= 1
    /\ spc = "none"

\* C9: framesSent never decreases, and a restarted forwarding goroutine
\* continues from the counter it finds.
C9_Monotonic == [][framesSent' >= framesSent]_vars

C9_Witness ==
    /\ sentAtStart >= 1
    /\ framesSent > sentAtStart

\* C7 apart from the panic of C6
C7_UnlessPanic ==
    (spc = "select" /\ ~sinkAccepts)
        ~> (Finished = <<TRUE, "ErrVoiceConnClosed">> \/ panicked)

\* C10: Finished() is true once, and only once, stream() has handled an
\* error returned by readNext; its error is nil if the stream finished on
\* io.EOF and is the error it finished on otherwise; a stream that is only
\* paused is not finished.
C10_Finished ==
    /\ sFinished => cause # "none"
    /\ (cause # "none" /\ spc # "fin") => sFinished
    /\ sErr = IF sFinished /\ firstCause # "EOF" THEN firstCause ELSE "nil"
    /\ (sPaused /\ cause = "none") => ~sFinished

C10_Witness ==
    /\ sFinished
    /\ cause = "EOF"
    /\ sErr = "nil"
    /\ framesSent >= 1
    /\ sPaused

----------------------------------------------------------------------------
\* The streaming session that owns its transcoding session
\* (StreamFromEncodeSession / SetRunning): the forwarding goroutine reads the
\* session with DecodeFrame and truncates it when readNext fails

\* StreamFromEncodeSession over a fresh raw-output session (RawOutput = true
\* is what the players set before they stream a session: DecodeFrame reads
\* length-prefixed frames, which a metadata frame is not)
OwnedInit ==
    /\ EncInit
    /\ options.RawOutput
    /\ sPaused = FALSE
    /\ framesSent = 0
    /\ sFinished = FALSE
    /\ sRunning = FALSE
    /\ sErr = "nil"
    /\ pendingTasks = 1
    /\ spc = "none"
    /\ panicked = FALSE
    /\ srcLen = 0
    /\ pulled = 0
    /\ srcEnd = "EOF"
    /\ sinkAccepts = TRUE
    /\ sunk = <<>>
    /\ cause = "none"
    /\ firstCause = "none"
    /\ posAtPause = 0
    /\ sentAtStart = 0
    /\ done = FALSE
    /\ doneSent = <<>>

\* stream(): a spawned goroutine is scheduled; it returns at once if a
\* forwarding goroutine is already running, else it sets running
OwnedStart ==
    /\ pendingTasks > 0
    /\ pendingTasks' = pendingTasks - 1
    /\ IF sRunning
       THEN UNCHANGED <<sRunning, spc, sentAtStart>>
       ELSE /\ sRunning' = TRUE
            /\ spc' = "check"
            /\ sentAtStart' = framesSent
    /\ UNCHANGED <<sPaused, framesSent, sFinished, sErr, panicked, sourceVars,
                   sunk, cause, posAtPause, firstCause, done, doneSent,
                   encVars>>

\* readNext(): DecodeFrame(s.e). The session's Read calls ReadFrame until it
\* holds the bytes asked for; a raw-output frame shorter than 32768 bytes
\* carries its own length, so each DecodeFrame takes exactly one frame off
\* the channel, and the closed empty channel gives io.EOF
OwnedPull ==
    /\ spc = "pull"
    /\ ChanRecv("read")
    /\ IF eofs' > eofs
       THEN /\ cause' = "EOF"
            /\ spc' = "fin"
            /\ UNCHANGED pulled
       ELSE /\ pulled' = pulled + 1
            /\ spc' = "select"
            /\ UNCHANGED cause
    /\ UNCHANGED <<options, filePath, mutex, running, process, lastFrame,
                   closed, segIdx, packetBuf, pend, proc, src, out, stops,
                   lastStop, tMid, auxVars, sessionVars, pendingTasks,
                   panicked, srcLen, srcEnd, sinkAccepts, sunk, posAtPause,
                   sentAtStart, firstCause, done, doneSent>>

\* OwnedFinish that leaves the transcoding session alone
OwnedFinishNoTruncate ==
    /\ spc = "fin"
    /\ sFinished' = TRUE
    /\ sErr' = IF cause # "EOF" THEN cause ELSE sErr
    /\ firstCause' = IF sFinished THEN firstCause ELSE cause
    /\ spc' = "exit"
    /\ UNCHANGED <<sPaused, framesSent, sRunning, pendingTasks, panicked,
                   sourceVars, sunk, cause, posAtPause, sentAtStart, done,
                   doneSent, encVars>>

\* stream(): readNext returned an error; under s.Lock() the stream is marked
\* finished and s.e.Truncate() is entered
OwnedFinish ==
    /\ spc = "fin"
    /\ sFinished' = TRUE
    /\ sErr' = IF cause # "EOF" THEN cause ELSE sErr
    /\ firstCause' = IF sFinished THEN firstCause ELSE cause
    /\ spc' = "trunc"
    /\ tpc' = "stop"
    /\ tMid' = MidStream
    /\ UNCHANGED <<sPaused, framesSent, sRunning, pendingTasks, panicked,
                   sourceVars, sunk, cause, posAtPause, sentAtStart, options,
                   filePath, mutex, running, process, lastFrame, frameChannel,
                   closed, producerVars, proc, src, out, received, eofs,
                   stops, lastStop, discarded, sentCount, metaSent, auxVars,
                   done, doneSent>>

\* stream(): s.e.Truncate() has returned; s.Unlock() and break
OwnedUnlock ==
    /\ spc = "trunc"
    /\ tpc = "returned"
    /\ spc' = "exit"
    /\ UNCHANGED <<sessionVars, pendingTasks, panicked, sourceVars, sunk,
                   cause, posAtPause, sentAtStart, firstCause, done, doneSent,
                   encVars>>

\* SetRunning(run): the pause logic of SetPaused(!run); it waits for
\* s.Lock() while the forwarding goroutine is inside Truncate
SetRunning(run) ==
    /\ spc # "trunc"
    /\ SetPaused(~run)

OwnedTask ==
    \/ OwnedStart
    \/ StreamCheck
    \/ OwnedPull
    \/ StreamSend
    \/ StreamInc
    \/ OwnedFinish
    \/ TruncateStop
    \/ TruncateDrain
    \/ OwnedUnlock
    \/ StreamExit

\* run() of a raw-output session: writeMetadataFrame is not called
RawProducer ==
    \/ RunBegin
    \/ RunStart
    \/ CloseFail
    \/ Decode
    \/ ChanSend
    \/ Count
    \/ CloseChannel
    \/ Wait
    \/ RunDefer

OwnedNext ==
    \/ RawProducer
    \/ ProcExit
    \/ OwnedTask
    \/ \E run \in BOOLEAN : SetRunning(run)

OwnedSpec == OwnedInit /\ [][OwnedNext]_vars

C27_SameStateNoOp ==
    /\ sPaused => ~ENABLED (SetPaused(TRUE) /\ streamVars' # streamVars)
    /\ ~sPaused => ~ENABLED (SetPaused(FALSE) /\ streamVars' # streamVars)
    /\ \A paused \in BOOLEAN :
         ~ENABLED (SetPaused(paused) /\ ~sFinished /\ sPaused' # paused)

\* the stream was paused mid-stream, its forwarding goroutine has returned,
\* and SetPaused(true) can be called again
C27_Witness ==
    /\ sPaused
    /\ ~sRunning
    /\ spc = "none"
    /\ pendingTasks = 0
    /\ framesSent >= 1
    /\ ~sFinished
    /\ ENABLED SetPaused(TRUE)

\* C28: with a done channel, a finished stream has sent exactly one value on
\* it: nil after a clean end-of-stream, otherwise the error that stopped it.
C28_DoneOnce ==
    (done /\ sFinished) =>
        /\ Len(doneSent) = 1
        /\ doneSent[1] = IF firstCause = "EOF" THEN "nil" ELSE firstCause

\* C28, the part that holds: nothing is sent before the stream finishes or
\* without a done channel, every value sent is the error readNext returned,
\* and the send is left to a goroutine of its own, so stream() goes on to
\* its deferred function in the same step.
C28_SentIsCause ==
    /\ (~done \/ ~sFinished) => doneSent = <<>>
    /\ \A i \in 1..Len(doneSent) : doneSent[i] \in {"EOF", "ErrUnexpectedEOF",
                                                      "ErrVoiceConnClosed"}
    /\ (done /\ sFinished) => Len(doneSent) >= 1

\* C29: run() closes the frame channel exactly once on every path by which
\* it returns and leaves running false, the constructor's caller sees no
\* panic, and ReadFrame returns io.EOF only from the closed channel.
C29_ClosedOnce ==
    /\ closes <= 1
    /\ closed <=> closes = 1
    /\ pc = "done" => (closes = 1 /\ ~running)
    /\ eofs > 0 => closed
    /\ pc # "panic"

\* run() has returned on a failure path (ffmpeg was never started), and
\* ReadFrame has reported the end of the stream
C29_Witness ==
    /\ pc = "done"
    /\ launched = {}
    /\ closes = 1
    /\ ~running
    /\ eofs > 0

----------------------------------------------------------------------------
\* The segment reassembly of readStdout over every stream of pages: a
\* raw-output session fed from stdin, its subprocess and a ReadFrame consumer

ReassemblyInit ==
    /\ options \in {o \in StdOptions : o.RawOutput}
    /\ src \in PageStreams
    /\ FreshFields
    /\ filePath = FALSE
    /\ given = {options}
    /\ pc = "go"
    /\ PureIdle
    /\ StreamIdle

ReassemblyNext ==
    \/ RawProducer
    \/ ProcExit
    \/ ReadFrame

ReassemblySpec == ReassemblyInit /\ [][ReassemblyNext]_vars

\* C30: the payloads readStdout puts on the channel are the packets of the
\* packet boundary rule applied to the segments of all delivered pages as
\* one run; once the stream has ended they are all of them, their
\* concatenation is the concatenation of the segment data, and no payload
\* is empty.
C30_Reassembly ==
    LET segs == FlatSegs(Delivered(src), 1)
        sent == Payloads(received \o frameChannel)
    IN  /\ IsPrefix(sent, Packets(segs, <<>>))
        /\ eofs >= 1 => sent = Packets(segs, <<>>)
        /\ eofs >= 1 => Concat(sent) = SelectSeq(segs, HasData)
        /\ \A i \in 1..Len(sent) : BufLen(sent[i]) > 0

\* the stream has ended, and ReadFrame returned a frame whose packet began
\* on the first page and ended on the second
C30_Witness ==
    /\ eofs >= 1
    /\ Len(src) = 2
    /\ \E i \in 1..Len(received) :
         /\ \E k \in 1..Len(received[i].payload) :
              received[i].payload[k][1] = 1
         /\ \E k \in 1..Len(received[i].payload) :
              received[i].payload[k][1] = 2

\* C31: the length prefix writeOpusFrame puts before a payload, read back as
\* DecodeFrame reads it, is the number of payload bytes, for every payload
\* length, also above 32767.
C31_PrefixIsLength ==
    (decOut.err # "none" /\ avail >= 2)
        => LET prefix == LengthPrefix(frameLen)
           IN  /\ Int16(prefix[1] + 256 * prefix[2]) = frameLen
               /\ decOut.len = frameLen

\* C32: finished is terminal: once stream() has set it, it stays set, and a
\* SetPaused call on a finished stream changes nothing of the streaming
\* state and spawns no forwarding goroutine.
C32_FinishedTerminal ==
    /\ firstCause # "none" => sFinished
    /\ sFinished =>
         \A paused \in BOOLEAN :
            ~ENABLED (SetPaused(paused) /\ streamVars' # streamVars)

\* the stream finished while a pause was asked for, its goroutine has
\* returned, and SetPaused(false) can be called
C32_Witness ==
    /\ sFinished
    /\ sPaused
    /\ ~sRunning
    /\ spc = "none"
    /\ pendingTasks = 0
    /\ ENABLED SetPaused(FALSE)

\* C33: a resume is never lost: while the stream is not finished and not
\* paused, a forwarding goroutine is running or is spawned and yet to run.
C33_ResumeNotLost ==
    (~sFinished /\ ~sPaused /\ ~panicked)
        => (spc # "none" \/ pendingTasks > 0)

\* C34: the frames the sink has accepted are the first frames of the source,
\* in source order, none twice and none left out.
C34_SourcePrefix ==
    \A i \in 1..Len(sunk) : sunk[i] = i

\* C34, the part that holds: the sink gets frames in source order and none
\* twice, and a frame is left out only when the sink did not take it within
\* the timeout, which finishes the stream.
C34_InOrder ==
    /\ \A i \in 1..Len(sunk) : \A j \in 1..Len(sunk) :
          i < j => sunk[i] < sunk[j]
    /\ ~sFinished => \A i \in 1..Len(sunk) : sunk[i] = i

\* C35: once the stream is paused and until it is resumed, at most the one
\* frame in flight is pulled from the source, and the forwarding goroutine
\* then returns, so that running becomes false.
C35_PauseStopsTask ==
    /\ [](sPaused => pulled <= posAtPause + 1)
    /\ (sPaused /\ sRunning) ~> (~sRunning \/ ~sPaused)

\* C35, the part that holds: while paused at most the frame in flight is
\* pulled, and a goroutine that has returned pulls nothing.
C35_AtMostOnePulled ==
    /\ sPaused => pulled <= posAtPause + 1
    /\ (sPaused /\ ~sRunning /\ ~sFinished) => pulled = framesSent

\* C35, the part that holds unless the program panics: the forwarding
\* goroutine of a paused stream returns.
C35_UnlessPanic ==
    (sPaused /\ sRunning) ~> (~sRunning \/ ~sPaused \/ panicked)

\* C36: whenever Truncate() is called, its Stop() ends the subprocess: the
\* drain that follows never waits on a subprocess that is still running.
C36_TruncateKills ==
    tpc \in {"drain", "returned"} => proc # "alive"

\* C36, the part that holds: a Truncate() whose Stop() found the session
\* running with its process recorded leaves no subprocess running.
C36_KilledIfRecorded ==
    (tpc \in {"drain", "returned"} /\ lastStop = "killed") => proc # "alive"

----------------------------------------------------------------------------
\* run() of the sessions that hand ffmpeg a stdin pipe (src/encode.go and
\* src/unnamed/part_004): a raw-output session with its unbuffered channel,
\* its subprocess and a ReadFrame consumer. An Unlock of a mutex that is not
\* locked is the runtime's fatal error "sync: unlock of unlocked mutex",
\* which ends the program (pc = "fatal")

PipeInit ==
    /\ options \in {o \in StdOptions : o.RawOutput /\ o.BufferedFrames = 0}
    /\ NewSession
    /\ PureIdle
    /\ StreamIdle

\* e.Lock(); e.running = true
PipeRunBegin ==
    /\ pc = "go"
    /\ mutex = "free"
    /\ mutex' = "run"
    /\ running' = TRUE
    /\ pc' = "stdin"
    /\ UNCHANGED <<options, filePath, process, lastFrame, frameChannel, closed,
                   segIdx, packetBuf, pend, proc, src, out, callerVars,
                   sentCount, metaSent, auxVars, streamVars>>

\* ffmpeg.StdinPipe(): on an error e.Unlock() and the log line, and run()
\* goes on to StdoutPipe
StdinPipe ==
    /\ pc = "stdin"
    /\ \E ok \in BOOLEAN : mutex' = IF ok THEN mutex ELSE "free"
    /\ pc' = "stdout"
    /\ UNCHANGED <<options, filePath, running, process, lastFrame,
                   frameChannel, closed, segIdx, packetBuf, pend, proc, src,
                   out, callerVars, sentCount, metaSent, auxVars, streamVars>>

\* ffmpeg.StdoutPipe(): on an error e.Unlock(), close(e.frameChannel) and
\* return
StdoutPipe ==
    /\ pc = "stdout"
    /\ \E ok \in BOOLEAN :
         IF ok
         THEN /\ pc' = "start"
              /\ UNCHANGED <<mutex, src, out>>
         ELSE IF mutex = "run"
         THEN /\ mutex' = "free"
              /\ pc' = "closefail"
              /\ src' = <<>>
              /\ out' = <<>>
         ELSE /\ pc' = "fatal"
              /\ UNCHANGED <<mutex, src, out>>
    /\ UNCHANGED <<options, filePath, running, process, lastFrame,
                   frameChannel, closed, segIdx, packetBuf, pend, proc,
                   callerVars, sentCount, metaSent, auxVars, streamVars>>

\* ffmpeg.Start(): on an error e.Unlock(), close(e.frameChannel) and return;
\* else e.process = ffmpeg.Process and e.Unlock()
PipeStart ==
    /\ pc = "start"
    /\ \E ok \in BOOLEAN :
         /\ IF ok
            THEN /\ proc' = "alive"
                 /\ process' = TRUE
                 /\ launched' = {options}
                 /\ UNCHANGED <<src, out>>
            ELSE /\ src' = <<>>
                 /\ out' = <<>>
                 /\ UNCHANGED <<proc, process, launched>>
         /\ IF mutex = "run"
            THEN /\ mutex' = "free"
                 /\ pc' = IF ok THEN "decode" ELSE "closefail"
            ELSE /\ pc' = "fatal"
                 /\ UNCHANGED mutex
    /\ UNCHANGED <<options, filePath, running, lastFrame, frameChannel, closed,
                   segIdx, packetBuf, pend, callerVars, sentCount, metaSent,
                   kills, probeFailed, statsVars, closes, otherVars,
                   streamVars>>

\* readStdout after writeOpusFrame has handed its frame over:
\* packetBuf.Reset() and the rest of the segment table
Resume ==
    /\ pc \in {"count", "flushcount"}
    /\ IF pc = "count"
       THEN LET w == WalkSegs(src[CurPageNo], CurPageNo, segIdx, <<>>)
            IN  /\ segIdx' = w.i
                /\ packetBuf' = w.buf
                /\ pend' = IF w.emit THEN WireFrame(w.buf) ELSE pend
                /\ pc' = AfterWalk(w)
       ELSE /\ pc' = "close"
            /\ UNCHANGED <<segIdx, packetBuf, pend>>
    /\ UNCHANGED <<options, filePath, mutex, running, process, lastFrame,
                   frameChannel, closed, proc, src, out, callerVars, sentCount,
                   metaSent, auxVars, streamVars>>

PipeProducer ==
    \/ PipeRunBegin
    \/ StdinPipe
    \/ StdoutPipe
    \/ PipeStart
    \/ CloseFail
    \/ Decode
    \/ Resume
    \/ CloseChannel
    \/ Wait
    \/ RunDefer

PipeNext ==
    \/ PipeProducer
    \/ ProcExit
    \/ pc # "fatal" /\ ReadFrame

PipeRunSpec == PipeInit /\ [][PipeNext]_vars

\* C37: run() releases the session mutex once for each time it takes it, on
\* every path, the failure paths of the stdin, stdout and stderr pipes and
\* of the launch included: it never unlocks a mutex that is not locked, and
\* the mutex is free when run() has returned.
C37_LockBalanced ==
    /\ pc # "fatal"
    /\ pc = "done" => mutex = "free"

\* C37, the part that holds: while ffmpeg.StdinPipe() does not fail, run()
\* holds the mutex up to the launch or the failure, releases it once and
\* leaves it free.
C37_OnlyStdinFailure ==
    /\ pc = "stdin" => mutex = "run"
    /\ pc \in {"stdout", "start"} => mutex \in {"run", "free"}
    /\ pc \in {"closefail", "decode", "send", "flushsend", "count",
                "flushcount", "close", "wait", "defer", "done"}
          => mutex = "free"

\* C37 for run() without a stdin pipe (src/unnamed/part_005): the mutex is
\* held from the first step of run() to the launch or the failure, and is
\* free from then on.
C37_LatestRun ==
    /\ pc \in {"probe", "metasend", "start"} => mutex = "run"
    /\ pc \in {"closefail", "decode", "send", "flushsend", "close", "wait",
                "done"} => mutex = "free"

\* C38: once run() has begun (it has taken the lock and made its first
\* step, e.running = true), a session whose running flag is false has its
\* frame channel closed, so ReadFrame can be drained to the end of the
\* stream without waiting for the producer.
C38_NotRunningClosed ==
    (pc \notin {"new", "panic", "go"} /\ ~running) => closed

\* run() has returned after a launch, Running() is false, and frames are
\* still buffered for ReadFrame in the closed channel
C38_Witness ==
    /\ pc = "done"
    /\ ~running
    /\ closed
    /\ launched # {}
    /\ frameChannel # <<>>
    /\ eofs = 0

----------------------------------------------------------------------------
\* OpusFrame() of a raw-output session: DecodeFrame over the io.Reader the
\* session implements with Read and e.buf. The frames the producer put on
\* the channel are given by their payload lengths, and the channel is closed
\* after them; a byte of e.buf is named by its offset in the concatenation
\* of the wire frames

\* payload lengths of the frames on the channel: short ones, those around
\* one byte and the ends of the int16 range (readStdout sends no empty frame)
QueuedLens == {1, 2, 7, 255, 256, 32767, 32768}

Min(a, b) == IF a < b THEN a ELSE b

\* bytes of the first k wire frames: 2 bytes of prefix and the payload each
RECURSIVE WireLen(_, _)
WireLen(frames, k) ==
    IF k = 0 THEN 0 ELSE WireLen(frames, k - 1) + 2 + frames[k]

\* Read(p): the loop that calls ReadFrame and writes the frame to e.buf while
\* e.buf holds fewer than len(p) bytes; it ends at io.EOF of the channel
RECURSIVE Fill(_, _, _, _)
Fill(frames, t, pos, m) ==
    IF WireLen(frames, t) - pos >= m \/ t = Len(frames) THEN t
    ELSE Fill(frames, t + 1, pos, m)

\* Read(p) with len(p) = m > 0 when t frames are in e.buf and pos bytes of
\* it are read: e.buf.Read(p) returns what it has, up to m bytes, and
\* io.EOF when it has none
Read(frames, t, pos, m) ==
    LET t2 == Fill(frames, t, pos, m)
        n == Min(m, WireLen(frames, t2) - pos)
    IN  [taken |-> t2, n |-> n, err |-> IF n = 0 THEN "EOF" ELSE "nil"]

\* io.ReadFull(e, buf) with len(buf) = m, got bytes read so far: Read is
\* called until buf is full or it returns an error; io.EOF after some bytes
\* is io.ErrUnexpectedEOF
RECURSIVE ReadFull(_, _, _, _, _)
ReadFull(frames, t, pos, m, got) ==
    IF got >= m THEN [taken |-> t, n |-> got, err |-> "nil"]
    ELSE LET r == Read(frames, t, pos + got, m - got)
         IN  IF r.err # "nil"
             THEN [taken |-> r.taken, n |-> got,
                   err |-> IF got = 0 THEN "EOF" ELSE "ErrUnexpectedEOF"]
             ELSE ReadFull(frames, r.taken, pos, m, got + r.n)

\* the frames whose length prefix begins at offset pos of the byte stream
FrameAt(frames, pos) ==
    {k \in 1..Len(frames) : WireLen(frames, k - 1) = pos}

\* OpusFrame() = DecodeFrame(e), the two bytes at pos being the prefix of
\* frame k: binary.Read of the int16, make([]byte, size) (a panic if size is
\* negative), binary.Read of size bytes. The bytes returned are named by
\* the offset of the first and their number
OpusFrame(frames, t, pos, k) ==
    LET h == ReadFull(frames, t, pos, 2, 0)
    IN  IF h.err # "nil"
        THEN [taken |-> h.taken, pos |-> pos + h.n,
              out |-> [from |-> pos, n |-> 0, err |-> h.err]]
        ELSE LET prefix == LengthPrefix(frames[k])
                 size == Int16(prefix[1] + 256 * prefix[2])
             IN  IF size < 0
                 THEN [taken |-> h.taken, pos |-> pos + 2,
                       out |-> [from |-> pos + 2, n |-> 0, err |-> "panic"]]
                 ELSE LET b == ReadFull(frames, h.taken, pos + 2, size, 0)
                      IN  [taken |-> b.taken, pos |-> pos + 2 + b.n,
                           out |-> [from |-> pos + 2, n |-> b.n,
                                    err |-> b.err]]

AdaptorInit ==
    /\ NoSession
    /\ StreamIdle
    /\ ValidateIdle
    /\ DecodeIdle
    /\ MetadataIdle
    /\ queued \in UNION {[1..n -> QueuedLens] : n \in 0..MaxFrames}
    /\ taken = 0
    /\ bufPos = 0
    /\ opusOut = <<>>

\* a call of OpusFrame() by the only consumer, as long as the calls before
\* it returned frames; at the end of the byte stream no frame is left
OpusFrameCall ==
    /\ IF opusOut = <<>> THEN TRUE ELSE opusOut[Len(opusOut)].err = "nil"
    /\ \E k \in FrameAt(queued, bufPos) \cup {Len(queued) + 1} :
         /\ k > Len(queued) => bufPos = WireLen(queued, Len(queued))
         /\ LET r == OpusFrame(queued, taken, bufPos,
                               Min(k, Len(queued)))
            IN  /\ taken' = r.taken
                /\ bufPos' = r.pos
                /\ opusOut' = Append(opusOut, r.out)
    /\ UNCHANGED <<options, filePath, mutex, running, process, lastFrame,
                   frameChannel, closed, producerVars, proc, src, out,
                   callerVars, sentCount, metaSent, kills, probeFailed,
                   launched, statsVars, closes, ctorVars, pureVars, queued,
                   streamVars>>

AdaptorSpec == AdaptorInit /\ [][OpusFrameCall]_vars

\* C39: the k-th OpusFrame() call of a raw-output session returns the whole
\* payload of the k-th frame put on the channel and nothing else, whatever
\* the frame lengths, and the call after the last frame returns io.EOF.
C39_ExactFrames ==
    \A k \in 1..Len(opusOut) :
        IF k <= Len(queued)
        THEN opusOut[k] = [from |-> WireLen(queued, k - 1) + 2,
                           n |-> queued[k], err |-> "nil"]
        ELSE opusOut[k].n = 0 /\ opusOut[k].err = "EOF"

\* C39, the part that holds: as long as no frame is longer than 32767
\* bytes, every call returns the payload of the next frame, whole, and the
\* call after the last frame returns io.EOF.
C39_UpToInt16 ==
    (\A i \in 1..Len(queued) : queued[i] <= 32767) => C39_ExactFrames

====
